---- MODULE Spec2Model ----
(***************************************************************************)
(* Model of the Solana scanner: the admission pipeline                     *)
(* (SolanaScanner._handle_token_of_interest), its cooldown cache           *)
(* (_ignorable_tokens) and the scan loop (SolanaScanner.run).              *)
(*                                                                         *)
(* Amounts are whole US dollars, percentages whole percents, time whole    *)
(* seconds.  A handler is cut into steps at its external calls; the steps  *)
(* of one evaluation are sequenced by hpc, those of the loop by pc.        *)
(***************************************************************************)
EXTENDS Integers, Sequences, FiniteSets, TLC

\* ------------------------------------------------------------------ bounds
\* No loop iteration starts after MaxTime seconds of wall clock.
MaxTime == 61
\* The candidate feed returns at most MaxTokens records per cycle.
MaxTokens == 2

\* ------------------------------------------------------- program constants
SECONDS_TO_SLEEP_ON_ERROR == 60
SECONDS_BETWEEN_SCANS == 30
SECONDS_TO_IGNORE_TOKEN_OR_POOL_AFTER_SIGNAL == 60

\* dict.get() of an absent key
None == -1
\* a record of the feed without the "tokenAddress" key
NoKey == "<no tokenAddress>"

Tokens == {"a", "b"}

\* default_config of load_chain_parameter_config
DefaultConfig ==
    [ min_liquidity_in_usd |-> 10000,
      min_mcap_in_usd |-> 100000,
      max_mcap_in_usd |-> 10000000,
      max_holding_percentage_top_5_holders |-> 50,
      min_holder_count |-> 100,
      min_24h_usd_volume_as_percentage_of_mcap |-> 5,
      std_multiple_for_outlier |-> 2 ]

\* a parameter file an operator has tuned
TunedConfig ==
    [ min_liquidity_in_usd |-> 60000,
      min_mcap_in_usd |-> 100000,
      max_mcap_in_usd |-> 10000000,
      max_holding_percentage_top_5_holders |-> 50,
      min_holder_count |-> 100,
      min_24h_usd_volume_as_percentage_of_mcap |-> 5,
      std_multiple_for_outlier |-> 2 ]

ParamSets == {DefaultConfig, TunedConfig}

\* the fields of SolanaChainParameterConfig
ParamFields ==
    { "min_liquidity_in_usd", "min_mcap_in_usd", "max_mcap_in_usd",
      "max_holding_percentage_top_5_holders", "min_holder_count",
      "min_24h_usd_volume_as_percentage_of_mcap", "std_multiple_for_outlier" }

\* a parameter file saved without its last key
PartialConfig ==
    [ min_liquidity_in_usd |-> 60000,
      min_mcap_in_usd |-> 100000,
      max_mcap_in_usd |-> 10000000,
      max_holding_percentage_top_5_holders |-> 50,
      min_holder_count |-> 100,
      min_24h_usd_volume_as_percentage_of_mcap |-> 5 ]

\* what json.load gives for a file that holds no JSON document
NoContent == [ k \in {} |-> 0 ]

\* HandlePoolResponse members returned by the threshold stages, in stage order
StageLabels ==
    << "MIN_LIQUIDITY", "MCAP_RANGE", "TOP_5_HOLDERS_ABOVE_TH",
       "LOW_HOLDER_COUNT", "MIN_24H_VOLUME", "NO_BUY_OUTLIER" >>

ThresholdLabels == { StageLabels[i] : i \in 1..Len(StageLabels) }

\* ------------------------------------------------- what the providers return
\* a value float() rejects (ValueError)
Garbage == -2

\* candidate records of the graduated-tokens feed
AllRecords ==
    [ tokenAddress : Tokens \cup {NoKey},
      liquidity : {None, Garbage, 5000, 50000},
      fullyDilutedValuation : {None, 50000, 2000000, 20000000},
      priceUsd : {None, 1} ]

Candidate(addr, liq, mcap, price) ==
    [ tokenAddress |-> addr, liquidity |-> liq,
      fullyDilutedValuation |-> mcap, priceUsd |-> price ]

\* the records the scan loop is driven with
FeedRecords ==
    { Candidate("a", 50000, 2000000, 1),
      Candidate("b", 50000, 2000000, 1),
      Candidate("a", 5000, None, 1),
      Candidate(NoKey, 50000, 2000000, 1) }

RECURSIVE SeqsUpTo(_, _)
SeqsUpTo(S, n) ==
    IF n = 0 THEN { <<>> }
    ELSE LET shorter == SeqsUpTo(S, n - 1)
         IN  shorter \cup { Append(q, x) : q \in { r \in shorter : Len(r) = n - 1 }, x \in S }

FeedLists == SeqsUpTo(FeedRecords, MaxTokens)

Holder(contract, pct) == [ isContract |-> contract, percentageRelativeToTotalSupply |-> pct ]

\* top-holder lists: a contract in front of six wallets (the first five sum to
\* the default threshold), five wallets summing to one percent more, a
\* contract among the first five holders, fewer than five wallets, and a
\* contract in front of five wallets summing to one percent too much
HolderLists ==
    { << Holder(TRUE, 60), Holder(FALSE, 10), Holder(FALSE, 10), Holder(FALSE, 10),
         Holder(FALSE, 10), Holder(FALSE, 10), Holder(FALSE, 10) >>,
      << Holder(FALSE, 11), Holder(FALSE, 10), Holder(FALSE, 10), Holder(FALSE, 10),
         Holder(FALSE, 10) >>,
      << Holder(FALSE, 10), Holder(FALSE, 10), Holder(TRUE, 40), Holder(FALSE, 10),
         Holder(FALSE, 10), Holder(FALSE, 10), Holder(FALSE, 10) >>,
      << Holder(TRUE, 5), Holder(FALSE, 30), Holder(FALSE, 30) >>,
      << Holder(TRUE, 5), Holder(FALSE, 10), Holder(FALSE, 10), Holder(FALSE, 10),
         Holder(FALSE, 10), Holder(FALSE, 11) >> }

HolderCounts == {50, 500}

Analytics(buy24, sell24, buy1) ==
    [ totalBuyVolume |-> [ h24 |-> buy24, h1 |-> buy1 ],
      totalSellVolume |-> [ h24 |-> sell24 ] ]

NoAnalytics == Analytics(None, None, None)

AnalyticsSet ==
    { Analytics(200000, 100000, 20000),
      Analytics(200000, 100000, 15000),
      Analytics(240000, 0, 20000),
      Analytics(40000, 100000, 20000),
      Analytics(40000, 100000, 3000) }

Pair(name, addr) == [ exchangeName |-> name, pairAddress |-> addr ]

PairLists ==
    { <<>>,
      << Pair("Raydium", "r1"), Pair("pumpswap", "q1"),
         Pair("PumpSwap", "p1"), Pair("PumpSwap", "p2") >> }

\* number of candles of the 24h candlestick response
CandleCounts == {0, 2}

\* ------------------------------------------------------------ pure helpers
\* _token_is_ignorable with an exclusive expiry
TokenIsIgnorable_Exclusive(cache, token, ts) ==
    IF token \in DOMAIN cache THEN cache[token] > ts ELSE FALSE

\* _token_is_ignorable
TokenIsIgnorable(cache, token, ts) ==
    IF token \in DOMAIN cache THEN cache[token] >= ts ELSE FALSE
\* _add_token_to_ignore keeping the later of the two expiries
AddTokenToIgnore_KeepLater(cache, pool, ignore_till_timestamp) ==
    [ t \in DOMAIN cache \cup {pool} |->
        IF t = pool
        THEN IF pool \in DOMAIN cache /\ cache[pool] > ignore_till_timestamp
             THEN cache[pool]
             ELSE ignore_till_timestamp
        ELSE cache[t] ]

\* _add_token_to_ignore
AddTokenToIgnore(cache, pool, ignore_till_timestamp) ==
    [ t \in DOMAIN cache \cup {pool} |->
        IF t = pool THEN ignore_till_timestamp ELSE cache[t] ]

\* the expiry computed from the scan interval instead of the cooldown
IgnoreTill_ScanInterval(ts) == ts + SECONDS_BETWEEN_SCANS

\* the expiry _handle_token_of_interest hands to _add_token_to_ignore
IgnoreTill(ts) == ts + SECONDS_TO_IGNORE_TOKEN_OR_POOL_AFTER_SIGNAL

\* float(): the number, or ValueError
CanFloat(v) == v >= 0

\* PreCheck with the liquidity checks ahead of the suppression check
PreCheck_LiquidityFirst(token_data, ts, cache, cfg) ==
    IF token_data.tokenAddress = NoKey THEN "RAISE"
    ELSE IF token_data.liquidity = None THEN "ERROR"
    ELSE IF ~CanFloat(token_data.liquidity) THEN "RAISE"
    ELSE IF token_data.liquidity < cfg.min_liquidity_in_usd THEN "MIN_LIQUIDITY"
    ELSE IF TokenIsIgnorable(cache, token_data.tokenAddress, ts) THEN "IGNORABLE"
    ELSE IF token_data.fullyDilutedValuation = None THEN "ERROR"
    ELSE IF ~CanFloat(token_data.fullyDilutedValuation) THEN "RAISE"
    ELSE IF \/ token_data.fullyDilutedValuation < cfg.min_mcap_in_usd
            \/ token_data.fullyDilutedValuation > cfg.max_mcap_in_usd THEN "MCAP_RANGE"
    ELSE "CONTINUE"

\* PreCheck with the valuation range checked before the liquidity floor
PreCheck_ValuationFirst(token_data, ts, cache, cfg) ==
    IF token_data.tokenAddress = NoKey THEN "RAISE"
    ELSE IF TokenIsIgnorable(cache, token_data.tokenAddress, ts) THEN "IGNORABLE"
    ELSE IF token_data.fullyDilutedValuation = None THEN "ERROR"
    ELSE IF ~CanFloat(token_data.fullyDilutedValuation) THEN "RAISE"
    ELSE IF \/ token_data.fullyDilutedValuation < cfg.min_mcap_in_usd
            \/ token_data.fullyDilutedValuation > cfg.max_mcap_in_usd THEN "MCAP_RANGE"
    ELSE IF token_data.liquidity = None THEN "ERROR"
    ELSE IF ~CanFloat(token_data.liquidity) THEN "RAISE"
    ELSE IF token_data.liquidity < cfg.min_liquidity_in_usd THEN "MIN_LIQUIDITY"
    ELSE "CONTINUE"

\* the checks of _handle_token_of_interest before its first provider call:
\* a HandlePoolResponse, "RAISE" (an exception) or "CONTINUE"
PreCheck(token_data, ts, cache, cfg) ==
    IF token_data.tokenAddress = NoKey THEN "RAISE"
    ELSE IF TokenIsIgnorable(cache, token_data.tokenAddress, ts) THEN "IGNORABLE"
    ELSE IF token_data.liquidity = None THEN "ERROR"
    ELSE IF ~CanFloat(token_data.liquidity) THEN "RAISE"
    ELSE IF token_data.liquidity < cfg.min_liquidity_in_usd THEN "MIN_LIQUIDITY"
    ELSE IF token_data.fullyDilutedValuation = None THEN "ERROR"
    ELSE IF ~CanFloat(token_data.fullyDilutedValuation) THEN "RAISE"
    ELSE IF \/ token_data.fullyDilutedValuation < cfg.min_mcap_in_usd
            \/ token_data.fullyDilutedValuation > cfg.max_mcap_in_usd THEN "MCAP_RANGE"
    ELSE "CONTINUE"
\* Top5Holders with a contract taking one of the five places
Top5Holders_SlotPerHolder(holders, acc) ==
    LET first5 == SubSeq(holders, 1, IF Len(holders) < 5 THEN Len(holders) ELSE 5)
    IN  acc \o SelectSeq(first5, LAMBDA h : ~h.isContract)

\* the first five holders that are not contracts, in list order
RECURSIVE Top5Holders(_, _)
Top5Holders(holders, acc) ==
    IF holders = <<>> \/ Len(acc) = 5 THEN acc
    ELSE IF Head(holders).isContract THEN Top5Holders(Tail(holders), acc)
    ELSE Top5Holders(Tail(holders), Append(acc, Head(holders)))

RECURSIVE PercentageHolding(_)
PercentageHolding(holders) ==
    IF holders = <<>> THEN 0
    ELSE Head(holders).percentageRelativeToTotalSupply + PercentageHolding(Tail(holders))

Top5AboveThreshold(top_5_holders, cfg) ==
    PercentageHolding(top_5_holders) > cfg.max_holding_percentage_top_5_holders

LowHolderCount(totalHolders, cfg) == totalHolders < cfg.min_holder_count

\* _24h_usd_volume < mcap_usd * percentage / 100, both sides times 100
VolumeBelowFloor(token_analytics, mcap_usd, cfg) ==
    LET _24h_usd_volume ==
            token_analytics.totalBuyVolume.h24 + token_analytics.totalBuyVolume.h24
    IN  _24h_usd_volume * 100
          < mcap_usd * cfg.min_24h_usd_volume_as_percentage_of_mcap
\* NoBuyOutlier letting a 1h buy volume equal to the threshold through
NoBuyOutlier_Strict(token_analytics, cfg) ==
    token_analytics.totalBuyVolume.h1 * 24
      < token_analytics.totalBuyVolume.h24 * cfg.std_multiple_for_outlier

\* totalBuyVolume["1h"] <= totalBuyVolume["24h"] * multiple / 24, both sides times 24
NoBuyOutlier(token_analytics, cfg) ==
    token_analytics.totalBuyVolume.h1 * 24
      <= token_analytics.totalBuyVolume.h24 * cfg.std_multiple_for_outlier

\* the pool taken from the last pair named "PumpSwap": the loop without its break
RECURSIVE PoolAddress_LastMatch(_)
PoolAddress_LastMatch(token_pairs) ==
    IF token_pairs = <<>> THEN ""
    ELSE IF PoolAddress_LastMatch(Tail(token_pairs)) # ""
         THEN PoolAddress_LastMatch(Tail(token_pairs))
    ELSE IF Head(token_pairs).exchangeName = "PumpSwap" THEN Head(token_pairs).pairAddress
    ELSE ""

\* the pairAddress of the first pair named "PumpSwap", "" when there is none
RECURSIVE PoolAddress(_)
PoolAddress(token_pairs) ==
    IF token_pairs = <<>> THEN ""
    ELSE IF Head(token_pairs).exchangeName = "PumpSwap" THEN Head(token_pairs).pairAddress
    ELSE PoolAddress(Tail(token_pairs))

\* load_chain_parameter_config: the file's content, default_config when the
\* file is missing or cannot be read
LoadChainParameterConfig(file) ==
    IF file.exists /\ file.readable THEN file.content ELSE DefaultConfig

\* chain_parameters/solana.json as a loop iteration may find it: a JSON
\* document (with all the fields or not), no JSON document, or no file
JsonFile(content) == [ exists |-> TRUE, readable |-> TRUE, content |-> content ]
MalformedFile == [ exists |-> TRUE, readable |-> FALSE, content |-> NoContent ]
MissingFile == [ exists |-> FALSE, readable |-> FALSE, content |-> NoContent ]

ParamFiles ==
    { JsonFile(c) : c \in ParamSets \cup {PartialConfig} }
      \cup { MalformedFile, MissingFile }

\* the file once load_chain_parameter_config has returned: a missing file has
\* been created with default_config
FileAfterLoad(file) == IF file.exists THEN file ELSE JsonFile(DefaultConfig)

\* SolanaChainParameterConfig(**cfg) accepts exactly the fields of the class
\* (TypeError otherwise)
ConfigAccepted(cfg) == DOMAIN cfg = ParamFields

\* the messages of one alert, in the order _send_alert sends them
AlertMessages == << "photo", "tx_analysis", "smart_money", "crypto_signals" >>

\* seconds the candidate fetch may take: at once, or after the retries of
\* MoralisSolana._get (up to 2 + 4 + 8 + 16 + 32 seconds of waiting, and the
\* requests)
FetchSeconds == {0, 61}

\* ------------------------------------------------------------------- state
VARIABLES
    helius,                 \* self.helius is set (HELIUS_API_KEY given)
    param_file,             \* chain_parameters/solana.json
    chain_parameter_config, \* self.chain_parameter_config
    ignorable_tokens,       \* self._ignorable_tokens
    scan_reports,           \* file names of INDIVIDUAL_SCAN_REPORTS_DIR
    report_writes,          \* scan reports the running iteration has written
    now,                    \* time.time()
    pc,                     \* position of run()
    start_time, timestamp, tokens, idx, scan_report,   \* locals of run()
    hpc,                    \* position of _handle_token_of_interest
    loc,                    \* its locals
    resp,                   \* its result
    calls,                  \* provider calls it has issued, in order
    delivered,              \* messages it has handed to the Telegram channel
    gpc,                    \* position of MoralisSolana._get
    url, retry, json,       \* its argument, its local, the response it returns
    attempts,               \* requests.get calls it has made
    sleeps,                 \* arguments of its time.sleep calls, in order
    missing_values,         \* main(): required configuration values that are empty
    exit_status,            \* status the process has exited with, None while it runs
    cache_call              \* last call of a cooldown cache method, with its arguments

vars ==
    << helius, param_file, chain_parameter_config, ignorable_tokens,
       scan_reports, report_writes, now, pc, start_time, timestamp, tokens, idx, scan_report,
       hpc, loc, resp, calls, delivered, gpc, url, retry, json, attempts, sleeps,
       missing_values, exit_status, cache_call >>

config_vars == << helius, param_file, chain_parameter_config >>
run_vars == << pc, start_time, timestamp, tokens, idx, scan_report >>
file_vars == << scan_reports, report_writes >>
get_vars == << gpc, url, retry, json, attempts, sleeps >>
main_vars == << missing_values, exit_status >>

EmptyDict == [ k \in {} |-> 0 ]

EmptyLoc ==
    [ top_token_holders |-> <<>>,
      top_5_holders |-> <<>>,
      totalHolders |-> None,
      token_analytics |-> NoAnalytics,
      buyer_analysis |-> EmptyDict,
      token_metadata |-> "unset",
      token_pairs |-> <<>>,
      pool_address |-> "unset",
      candlestick_data |-> None,
      helius_data |-> "None" ]

\* the parameter files __init__ can be constructed from, as it leaves them
StartupFiles ==
    { FileAfterLoad(f) : f \in { g \in ParamFiles :
                                    ConfigAccepted(LoadChainParameterConfig(g)) } }

\* no cooldown cache method has been called
NoCall == [ op |-> "none" ]

\* no call of MoralisSolana._get is under way
GetIdle ==
    /\ gpc = "idle"
    /\ url = ""
    /\ retry = 0
    /\ json = "unset"
    /\ attempts = 0
    /\ sleeps = <<>>

\* SolanaScanner.__init__
Init ==
    /\ helius \in BOOLEAN
    /\ param_file \in StartupFiles
    /\ chain_parameter_config = LoadChainParameterConfig(param_file)
    /\ ignorable_tokens = EmptyDict
    /\ scan_reports = {}
    /\ report_writes = 0
    /\ now = 0
    /\ pc = "top"
    /\ start_time = 0
    /\ timestamp = 0
    /\ tokens = <<>>
    /\ idx = 1
    /\ scan_report = EmptyDict
    /\ hpc = "idle"
    /\ loc = EmptyLoc
    /\ resp = "unset"
    /\ calls = <<>>
    /\ delivered = <<>>
    /\ GetIdle
    /\ cache_call = NoCall
    /\ missing_values = {}
    /\ exit_status = None
\* the loop top without the reload: the parameter set of the constructor is
\* kept for the life of the process
LoopTop_NoReload ==
    /\ pc = "top"
    /\ now <= MaxTime
    /\ start_time' = now
    /\ \E file \in ParamFiles : param_file' = file
    /\ timestamp' = now
    /\ pc' = "fetch"
    /\ UNCHANGED << helius, chain_parameter_config, get_vars, cache_call, main_vars,
                    ignorable_tokens, file_vars, now, tokens, idx,
                    scan_report, hpc, loc, resp, calls, delivered >>

\* ------------------------------------------------------------ run(): loop
\* top of the while loop (lines 479-489): start_time, the parameter reload
\* from the file as it is found, timestamp.  The reload is outside the try:
\* a failure to create the missing file, or a document
\* SolanaChainParameterConfig does not accept, ends run(), and main()
\* (main.py lines 45-47) exits with status 1
LoopTop ==
    /\ pc = "top"
    /\ now <= MaxTime
    /\ start_time' = now
    /\ \E file \in ParamFiles :
         \/ /\ ~file.exists
            /\ param_file' = file
            /\ pc' = "exited"
            /\ exit_status' = 1
            /\ UNCHANGED << chain_parameter_config, timestamp >>
         \/ LET _chain_parameter_config == LoadChainParameterConfig(file)
            IN  /\ param_file' = FileAfterLoad(file)
                /\ IF ConfigAccepted(_chain_parameter_config)
                   THEN /\ chain_parameter_config' = _chain_parameter_config
                        /\ timestamp' = now
                        /\ pc' = "fetch"
                        /\ exit_status' = exit_status
                   ELSE /\ pc' = "exited"
                        /\ exit_status' = 1
                        /\ UNCHANGED << chain_parameter_config, timestamp >>
    /\ UNCHANGED << helius, get_vars, cache_call, missing_values, ignorable_tokens, file_vars, now, tokens, idx,
                    scan_report, hpc, loc, resp, calls, delivered >>
\* the fetch leaving an empty report behind when it fails
FetchTokens_ReportOnFailure ==
    /\ pc = "fetch"
    /\ \E d \in FetchSeconds :
         /\ now' = now + d
         /\ \/ /\ pc' = "except"
               /\ scan_reports' = scan_reports \cup {now'}
               /\ UNCHANGED << tokens, idx, scan_report, report_writes >>
            \/ \E l \in FeedLists :
                 /\ tokens' = l
                 /\ idx' = 1
                 /\ scan_report' = EmptyDict
                 /\ pc' = "loop"
                 /\ UNCHANGED file_vars
    /\ UNCHANGED << config_vars, get_vars, cache_call, main_vars, ignorable_tokens,
                    start_time, timestamp, hpc, loc, resp, calls, delivered >>

\* tokens = self.moralis.get_recently_graduated_tokens(); scan_report = {}
FetchTokens ==
    /\ pc = "fetch"
    /\ \E d \in FetchSeconds :
         /\ now' = now + d
         /\ \/ /\ pc' = "except"
               /\ UNCHANGED << tokens, idx, scan_report >>
            \/ \E l \in FeedLists :
                 /\ tokens' = l
                 /\ idx' = 1
                 /\ scan_report' = EmptyDict
                 /\ pc' = "loop"
    /\ UNCHANGED << config_vars, get_vars, cache_call, main_vars, ignorable_tokens, file_vars, start_time, timestamp,
                    hpc, loc, resp, calls, delivered >>

\* ------------------------------------- _handle_token_of_interest, by steps
token_data == tokens[idx]
token_address == token_data.tokenAddress

InHandler(p) == pc = "loop" /\ idx <= Len(tokens) /\ hpc = p

Returns(r) == resp' = r /\ hpc' = "returned"
Raises == resp' = resp /\ hpc' = "raised"
Goes(p) == resp' = resp /\ hpc' = p

handler_frame == << config_vars, get_vars, cache_call, main_vars, now, run_vars >>

\* HandleStart with the top-holder lookup issued before the checks
HandleStart_Eager ==
    /\ InHandler("idle")
    /\ calls' = Append(calls, "get_top_token_holders")
    /\ LET r == PreCheck(token_data, timestamp, ignorable_tokens, chain_parameter_config)
       IN  CASE r = "RAISE" -> Raises
             [] r = "CONTINUE" -> Goes("holder_stats")
             [] OTHER -> Returns(r)
    /\ UNCHANGED << handler_frame, ignorable_tokens, file_vars, loc, delivered >>

\* lines 62-95: suppression, liquidity and valuation checks
HandleStart ==
    /\ InHandler("idle")
    /\ LET r == PreCheck(token_data, timestamp, ignorable_tokens, chain_parameter_config)
       IN  CASE r = "RAISE" -> Raises
             [] r = "CONTINUE" -> Goes("top_holders")
             [] OTHER -> Returns(r)
    /\ UNCHANGED << handler_frame, ignorable_tokens, file_vars, loc, calls, delivered >>

\* lines 97-120: top holders and the concentration check
GetTopTokenHolders ==
    /\ InHandler("top_holders")
    /\ calls' = Append(calls, "get_top_token_holders")
    /\ \/ Raises /\ UNCHANGED loc
       \/ \E top_token_holders \in HolderLists :
            LET top_5_holders == Top5Holders(top_token_holders, <<>>)
            IN  /\ loc' = [loc EXCEPT !.top_token_holders = top_token_holders,
                                       !.top_5_holders = top_5_holders]
                /\ IF Top5AboveThreshold(top_5_holders, chain_parameter_config)
                   THEN Returns("TOP_5_HOLDERS_ABOVE_TH")
                   ELSE Goes("holder_stats")
    /\ UNCHANGED << handler_frame, ignorable_tokens, file_vars, delivered >>

\* lines 122-131: holder statistics and the holder count check
\* (top_token_holders is not read after line 104)
GetTokenHolderStats ==
    /\ InHandler("holder_stats")
    /\ calls' = Append(calls, "get_token_holder_stats")
    /\ \/ Raises /\ loc' = [loc EXCEPT !.top_token_holders = <<>>]
       \/ \E totalHolders \in HolderCounts :
            /\ loc' = [loc EXCEPT !.top_token_holders = <<>>,
                                  !.totalHolders = totalHolders]
            /\ IF LowHolderCount(totalHolders, chain_parameter_config)
               THEN Returns("LOW_HOLDER_COUNT")
               ELSE Goes("analytics")
    /\ UNCHANGED << handler_frame, ignorable_tokens, file_vars, delivered >>

\* lines 133-134: token analytics
GetTokenAnalytics ==
    /\ InHandler("analytics")
    /\ calls' = Append(calls, "get_token_analytics")
    /\ \/ Raises /\ UNCHANGED loc
       \/ \E token_analytics \in AnalyticsSet :
            /\ loc' = [loc EXCEPT !.token_analytics = token_analytics]
            /\ Goes("buyers")
    /\ UNCHANGED << handler_frame, ignorable_tokens, file_vars, delivered >>
\* ------------------------------- MoralisSolana.get_first_time_vs_repeat_buyers
Windows == { "5m", "1h", "6h", "24h" }

\* lines 353-359, 361-367: the record of a window without buyers
ZeroWindow ==
    [ first_time_buyers |-> 0, repeat_buyers |-> 0, total_buyers |-> 0,
      total_buys |-> 0, avg_tx_per_buyer |-> 0 ]

\* lines 376-381: the record returned by the except clause
DefaultBuyerAnalysis == [ w \in Windows |-> ZeroWindow ]

\* lines 310-352: one window with buyers; the share of first-time buyers is
\* chosen by buys per buyer (>= 2, >= 1.5, >= 1.2, below) and rounded down;
\* avg_tx_per_buyer is kept in hundredths
BuyerWindow(total_buyers, total_buys) ==
    IF total_buyers > 0
    THEN LET percent == IF total_buys >= 2 * total_buyers THEN 25
                        ELSE IF 2 * total_buys >= 3 * total_buyers THEN 35
                        ELSE IF 5 * total_buys >= 6 * total_buyers THEN 55
                        ELSE 75
             first_time_buyers == (total_buyers * percent) \div 100
         IN  [ first_time_buyers |-> first_time_buyers,
               repeat_buyers |-> total_buyers - first_time_buyers,
               total_buyers |-> total_buyers,
               total_buys |-> total_buys,
               avg_tx_per_buyer |-> (100 * total_buys) \div total_buyers ]
    ELSE ZeroWindow

\* what the analytics request inside the lookup can come back with: an
\* exception, a document without the buyer counts, a document with them
\* (no buyers in the last 5 minutes, no 24h window)
AnalyticsRaised == [ raised |-> TRUE ]
AnalyticsWithoutBuyers == [ totalBuys |-> [ w \in Windows |-> 0 ] ]
AnalyticsWithBuyers ==
    [ totalBuyers |-> [ w \in {"5m", "1h", "6h"} |->
                          CASE w = "5m" -> 0 [] w = "1h" -> 10 [] w = "6h" -> 20 ],
      totalBuys |-> [ w \in {"5m", "1h", "6h"} |->
                          CASE w = "5m" -> 0 [] w = "1h" -> 25 [] w = "6h" -> 26 ] ]

BuyerLookups == { AnalyticsRaised, AnalyticsWithoutBuyers, AnalyticsWithBuyers }

\* the lookup re-raising what goes wrong inside it
FirstTimeVsRepeatBuyers_Raising(analytics) ==
    IF "totalBuyers" \notin DOMAIN analytics \/ "totalBuys" \notin DOMAIN analytics
    THEN AnalyticsRaised
    ELSE [ w \in Windows |->
             IF w \in DOMAIN analytics.totalBuyers /\ w \in DOMAIN analytics.totalBuys
             THEN BuyerWindow(analytics.totalBuyers[w], analytics.totalBuys[w])
             ELSE ZeroWindow ]

\* lines 292-381: every exception inside the lookup, the missing structure
\* included, gives the default record
FirstTimeVsRepeatBuyers(analytics) ==
    IF "totalBuyers" \notin DOMAIN analytics \/ "totalBuys" \notin DOMAIN analytics
    THEN DefaultBuyerAnalysis
    ELSE [ w \in Windows |->
             IF w \in DOMAIN analytics.totalBuyers /\ w \in DOMAIN analytics.totalBuys
             THEN BuyerWindow(analytics.totalBuyers[w], analytics.totalBuys[w])
             ELSE ZeroWindow ]

\* the two volume checks in the opposite order
VolumeChecks_OutlierFirst(token_analytics, mcap_usd, cfg) ==
    IF NoBuyOutlier(token_analytics, cfg) THEN "NO_BUY_OUTLIER"
    ELSE IF VolumeBelowFloor(token_analytics, mcap_usd, cfg) THEN "MIN_24H_VOLUME"
    ELSE "CONTINUE"

\* lines 139-163: the volume floor, then the outlier check
VolumeChecks(token_analytics, mcap_usd, cfg) ==
    IF VolumeBelowFloor(token_analytics, mcap_usd, cfg) THEN "MIN_24H_VOLUME"
    ELSE IF NoBuyOutlier(token_analytics, cfg) THEN "NO_BUY_OUTLIER"
    ELSE "CONTINUE"

\* lines 136-163: buyer recency, then the two volume checks.  The call is not
\* inside a try: an exception leaving the lookup would end the evaluation
\* like that of any other provider call
GetFirstTimeVsRepeatBuyers ==
    /\ InHandler("buyers")
    /\ calls' = Append(calls, "get_first_time_vs_repeat_buyers")
    /\ \E analytics \in BuyerLookups :
         LET buyer_analysis == FirstTimeVsRepeatBuyers(analytics)
             r == VolumeChecks(loc.token_analytics, token_data.fullyDilutedValuation,
                               chain_parameter_config)
         IN  IF "raised" \in DOMAIN buyer_analysis
             THEN Raises /\ UNCHANGED loc
             ELSE /\ loc' = [loc EXCEPT !.buyer_analysis = buyer_analysis]
                  /\ IF r = "CONTINUE" THEN Goes("metadata") ELSE Returns(r)
    /\ UNCHANGED << handler_frame, ignorable_tokens, file_vars, delivered >>

\* line 166: token metadata
GetTokenMetadata ==
    /\ InHandler("metadata")
    /\ calls' = Append(calls, "get_token_metadata")
    /\ \/ Raises /\ UNCHANGED loc
       \/ /\ loc' = [loc EXCEPT !.token_metadata = "ok"]
          /\ Goes("pairs")
    /\ UNCHANGED << handler_frame, ignorable_tokens, file_vars, delivered >>

\* lines 167-184: pairs, the PumpSwap pool, then the price check
GetTokenPairs ==
    /\ InHandler("pairs")
    /\ calls' = Append(calls, "get_token_pairs")
    /\ \/ Raises /\ UNCHANGED loc
       \/ \E token_pairs \in PairLists :
            /\ loc' = [loc EXCEPT !.token_pairs = token_pairs,
                                  !.pool_address = PoolAddress(token_pairs)]
            /\ IF token_data.priceUsd = None
               THEN Returns("ERROR")
               ELSE Goes("candles")
    /\ UNCHANGED << handler_frame, ignorable_tokens, file_vars, delivered >>

\* lines 185-186: candlesticks of the pool
Get24hCandlestickData ==
    /\ InHandler("candles")
    /\ calls' = Append(calls, "get_24h_candlestick_data")
    /\ \/ Raises /\ UNCHANGED loc
       \/ \E n \in CandleCounts :
            /\ loc' = [loc EXCEPT !.candlestick_data = n]
            /\ Goes("links")
    /\ UNCHANGED << handler_frame, ignorable_tokens, file_vars, delivered >>

\* lines 187-192: DexScreener links; a failure gives no links
GetLinks ==
    /\ InHandler("links")
    /\ calls' = Append(calls, "get_links")
    /\ Goes(IF helius THEN "helius" ELSE "send")
    /\ UNCHANGED << handler_frame, ignorable_tokens, file_vars, loc, delivered >>
\* the Helius lookup without the try of lines 197-201: its failure raises
GetEnhancedTokenDetails_Unguarded ==
    /\ InHandler("helius")
    /\ calls' = Append(calls, "get_enhanced_token_details")
    /\ \/ /\ loc' = [loc EXCEPT !.helius_data = "data"]
          /\ Goes("send")
       \/ /\ UNCHANGED loc
          /\ Raises
    /\ UNCHANGED << handler_frame, ignorable_tokens, file_vars, delivered >>

\* lines 194-201: Helius details when Helius is configured; a failure gives None
GetEnhancedTokenDetails ==
    /\ InHandler("helius")
    /\ calls' = Append(calls, "get_enhanced_token_details")
    /\ \E helius_data \in {"data", "None"} :
         loc' = [loc EXCEPT !.helius_data = helius_data]
    /\ Goes("send")
    /\ UNCHANGED << handler_frame, ignorable_tokens, file_vars, delivered >>

\* lines 211-232 and _send_alert: nothing is sent without candles; otherwise
\* the four messages go out in order, and a failure after k of them raises
SendAlert ==
    /\ InHandler("send")
    /\ IF loc.candlestick_data = 0
       THEN /\ delivered' = delivered
            /\ calls' = calls
            /\ Goes("mark")
       ELSE \E k \in 0..Len(AlertMessages) :
              /\ delivered' = SubSeq(AlertMessages, 1, k)
              /\ calls' = IF helius /\ k >= 2
                          THEN Append(calls, "get_token_transfers")
                          ELSE calls
              /\ IF k = Len(AlertMessages) THEN Goes("mark") ELSE Raises
    /\ UNCHANGED << handler_frame, ignorable_tokens, file_vars, loc >>
\* the end of a passing evaluation computing the expiry from the clock
MarkAndStore_FromClock ==
    /\ InHandler("mark")
    /\ ignorable_tokens' =
         AddTokenToIgnore(ignorable_tokens, token_address, IgnoreTill(now))
    /\ \/ Returns("PASSED")
       \/ Raises
    /\ UNCHANGED << handler_frame, file_vars, loc, calls, delivered >>

\* the end of a passing evaluation without the cooldown entry
MarkAndStore_NoEntry ==
    /\ InHandler("mark")
    /\ ignorable_tokens' = ignorable_tokens
    /\ \/ Returns("PASSED")
       \/ Raises
    /\ UNCHANGED << handler_frame, file_vars, loc, calls, delivered >>

\* lines 234-247: cooldown entry, then the alerted-token file (written, or its
\* write raises), PASSED
MarkAndStore ==
    /\ InHandler("mark")
    /\ ignorable_tokens' =
         AddTokenToIgnore(ignorable_tokens, token_address, IgnoreTill(timestamp))
    /\ \/ Returns("PASSED")
       \/ Raises
    /\ UNCHANGED << handler_frame, file_vars, loc, calls, delivered >>

\* ----------------------------------------------- run(): the candidate loop
\* lines 496-501: the except clause of one candidate; its log line reads
\* token_data['tokenAddress'] again
CatchCandidate ==
    /\ pc = "loop"
    /\ hpc = "raised"
    /\ IF token_address = NoKey
       THEN /\ pc' = "except"
            /\ UNCHANGED << hpc, resp >>
       ELSE /\ pc' = pc
            /\ Returns("ERROR")
    /\ UNCHANGED << config_vars, get_vars, cache_call, main_vars, ignorable_tokens, file_vars, now, start_time, timestamp,
                    tokens, idx, scan_report, loc, calls, delivered >>
\* the tally setting the count of a label instead of adding to it
Increment_Set(report, key) ==
    [ k \in DOMAIN report \cup {key} |-> IF k = key THEN 1 ELSE report[k] ]

Increment(report, key) ==
    [ k \in DOMAIN report \cup {key} |->
        IF k = key THEN (IF k \in DOMAIN report THEN report[k] ELSE 0) + 1
        ELSE report[k] ]

\* lines 503-507: the tally; the next candidate starts with fresh locals
Tally ==
    /\ pc = "loop"
    /\ hpc = "returned"
    /\ scan_report' = Increment(scan_report, resp)
    /\ idx' = idx + 1
    /\ hpc' = "idle"
    /\ loc' = EmptyLoc
    /\ resp' = "unset"
    /\ calls' = <<>>
    /\ delivered' = <<>>
    /\ UNCHANGED << config_vars, get_vars, cache_call, main_vars, ignorable_tokens, file_vars, now, pc, start_time,
                    timestamp, tokens >>
\* the report written before the candidates have all been classified
StoreReport_InsideLoop ==
    /\ pc = "loop"
    /\ hpc = "idle"
    /\ \/ /\ scan_reports' = scan_reports \cup {now}
          /\ report_writes' = report_writes + 1
          /\ pc' = "sleep"
       \/ /\ UNCHANGED file_vars
          /\ pc' = "except"
    /\ UNCHANGED << config_vars, get_vars, cache_call, main_vars, ignorable_tokens, now, start_time,
                    timestamp, tokens, idx, scan_report, hpc, loc, resp, calls, delivered >>

\* lines 509-516: the scan report file, named by the time of writing
StoreReport ==
    /\ pc = "loop"
    /\ idx > Len(tokens)
    /\ \/ /\ scan_reports' = scan_reports \cup {now}
          /\ report_writes' = report_writes + 1
          /\ pc' = "sleep"
       \/ /\ UNCHANGED file_vars
          /\ pc' = "except"
    /\ UNCHANGED << config_vars, get_vars, cache_call, main_vars, ignorable_tokens, now, start_time,
                    timestamp, tokens, idx, scan_report, hpc, loc, resp, calls, delivered >>

\* the locals of an iteration are dead once it ends
EndIteration ==
    /\ pc' = "top"
    /\ tokens' = <<>>
    /\ idx' = 1
    /\ scan_report' = EmptyDict
    /\ hpc' = "idle"
    /\ loc' = EmptyLoc
    /\ resp' = "unset"
    /\ calls' = <<>>
    /\ delivered' = <<>>
    /\ start_time' = 0
    /\ timestamp' = 0
    /\ report_writes' = 0
    /\ UNCHANGED << config_vars, get_vars, cache_call, main_vars, ignorable_tokens, scan_reports >>
\* the except clause sleeping what is left of the scan interval
OnError_InterScan ==
    /\ pc = "except"
    /\ LET secs_to_sleep == SECONDS_BETWEEN_SCANS - (now - start_time)
       IN  now' = IF secs_to_sleep > 0 THEN now + secs_to_sleep ELSE now
    /\ EndIteration

\* lines 518-524: whole-cycle failure, fixed sleep, continue
OnError ==
    /\ pc = "except"
    /\ now' = now + SECONDS_TO_SLEEP_ON_ERROR
    /\ EndIteration
\* the inter-scan sleep without the test of line 530
Sleep_Unclamped ==
    /\ pc = "sleep"
    /\ LET exec_secs == now - start_time
           secs_to_sleep == SECONDS_BETWEEN_SCANS - exec_secs
       IN  now' = now + secs_to_sleep
    /\ EndIteration

\* lines 526-531: sleep what is left of the scan interval
Sleep ==
    /\ pc = "sleep"
    /\ LET exec_secs == now - start_time
           secs_to_sleep == SECONDS_BETWEEN_SCANS - exec_secs
       IN  now' = IF secs_to_sleep > 0 THEN now + secs_to_sleep ELSE now
    /\ EndIteration

Handle ==
    \/ HandleStart
    \/ GetTopTokenHolders
    \/ GetTokenHolderStats
    \/ GetTokenAnalytics
    \/ GetFirstTimeVsRepeatBuyers
    \/ GetTokenMetadata
    \/ GetTokenPairs
    \/ Get24hCandlestickData
    \/ GetLinks
    \/ GetEnhancedTokenDetails
    \/ SendAlert
    \/ MarkAndStore

Next ==
    \/ LoopTop
    \/ FetchTokens
    \/ Handle
    \/ CatchCandidate
    \/ Tally
    \/ StoreReport
    \/ OnError
    \/ Sleep

Spec == Init /\ [][Next]_vars

\* --------------------------------------- one evaluation, from any candidate
\* cycle timestamps and cooldown caches of a scanner that alerted on "a" at
\* second 0 and on "b" at second 30, and runs its next cycle at second 60 or,
\* a cycle having taken a second longer, at second 61: a cycle on the expiry
\* of "a" and one a second after it
EvalTimes == {60, 61}

EvalCaches ==
    { EmptyDict,
      [ t \in {"a"} |-> 60 ],
      [ t \in {"a", "b"} |-> IF t = "a" THEN 60 ELSE 90 ] }

\* run() at the first candidate of a one-record feed
InitEval ==
    /\ helius \in BOOLEAN
    /\ param_file \in StartupFiles
    /\ chain_parameter_config = LoadChainParameterConfig(param_file)
    /\ ignorable_tokens \in EvalCaches
    /\ scan_reports = {}
    /\ report_writes = 0
    /\ timestamp \in EvalTimes
    /\ now = timestamp
    /\ start_time = timestamp
    /\ pc = "loop"
    /\ \E c \in AllRecords : tokens = << c >>
    /\ idx = 1
    /\ scan_report = EmptyDict
    /\ hpc = "idle"
    /\ loc = EmptyLoc
    /\ resp = "unset"
    /\ calls = <<>>
    /\ delivered = <<>>
    /\ GetIdle
    /\ cache_call = NoCall
    /\ missing_values = {}
    /\ exit_status = None

NextEval ==
    \/ Handle
    \/ CatchCandidate
    \/ Tally

SpecEval == InitEval /\ [][NextEval]_vars
\* --------------------------------------------------- MoralisSolana._get
MAX_RETRIES == 5

\* the lookups of MoralisSolana that go through _get
Urls ==
    { "exchange/pumpfun/graduated", "metadata", "top-holders", "analytics",
      "holders", "pairs", "ohlcv" }

\* what resp.json() can give
JsonBodies == { "object", "list" }

RECURSIVE Pow2(_)
Pow2(n) == IF n = 0 THEN 1 ELSE 2 * Pow2(n - 1)

scanner_vars ==
    << config_vars, main_vars, cache_call, ignorable_tokens, file_vars, now, run_vars,
       hpc, loc, resp, calls, delivered >>

\* a lookup calls _get(url): retry = 0
GetCall ==
    /\ gpc \in {"idle", "returned", "raised"}
    /\ url' \in Urls
    /\ retry' = 0
    /\ json' = "unset"
    /\ attempts' = 0
    /\ sleeps' = <<>>
    /\ gpc' = "request"
    /\ UNCHANGED scanner_vars

\* one request that gives up as soon as retry reaches MAX_RETRIES
GetRequest_CeilingAtRetryCount ==
    /\ gpc = "request"
    /\ attempts' = attempts + 1
    /\ \/ /\ json' \in JsonBodies
          /\ retry' = retry
          /\ gpc' = "returned"
       \/ /\ json' = json
          /\ retry' = retry + 1
          /\ gpc' = IF retry' >= MAX_RETRIES THEN "raised" ELSE "sleep"
    /\ UNCHANGED << scanner_vars, url, sleeps >>

\* lines 196-203: one requests.get; its answer is returned, any exception
\* (connection, HTTP status, JSON) counts a retry and is re-raised once the
\* count exceeds MAX_RETRIES
GetRequest ==
    /\ gpc = "request"
    /\ attempts' = attempts + 1
    /\ \/ /\ json' \in JsonBodies
          /\ retry' = retry
          /\ gpc' = "returned"
       \/ /\ json' = json
          /\ retry' = retry + 1
          /\ gpc' = IF retry' > MAX_RETRIES THEN "raised" ELSE "sleep"
    /\ UNCHANGED << scanner_vars, url, sleeps >>

\* line 204: time.sleep(2**retry), then the next turn of the loop
GetSleep ==
    /\ gpc = "sleep"
    /\ sleeps' = Append(sleeps, Pow2(retry))
    /\ gpc' = "request"
    /\ UNCHANGED << scanner_vars, url, retry, json, attempts >>

NextGet ==
    \/ GetCall
    \/ GetRequest
    \/ GetSleep

SpecGet == Init /\ [][NextGet]_vars
\* ------------------------------------------------------------------ main()
\* main.py lines 19-23
RequiredValues == { "MORALIS_API_KEY", "TG_BOT_TOKEN", "TG_SIGNALS_CHANNEL_ID" }

\* the process at the start of main(): the environment as it is found, no
\* scanner yet
InitMain ==
    /\ helius \in BOOLEAN
    /\ param_file \in ParamFiles
    /\ chain_parameter_config = NoContent
    /\ ignorable_tokens = EmptyDict
    /\ scan_reports = {}
    /\ report_writes = 0
    /\ now = 0
    /\ pc = "main"
    /\ start_time = 0
    /\ timestamp = 0
    /\ tokens = <<>>
    /\ idx = 1
    /\ scan_report = EmptyDict
    /\ hpc = "idle"
    /\ loc = EmptyLoc
    /\ resp = "unset"
    /\ calls = <<>>
    /\ delivered = <<>>
    /\ GetIdle
    /\ cache_call = NoCall
    /\ missing_values \in SUBSET RequiredValues
    /\ exit_status = None

\* main.py lines 12-42: sys.exit(1) when a required value is empty; otherwise
\* SolanaScanner(config), whose parameter load is outside the try of main()
\* (an exception there ends the process with a traceback, status 1), and
\* scanner.run()
Main ==
    /\ pc = "main"
    /\ IF missing_values # {}
       THEN /\ pc' = "exited"
            /\ exit_status' = 1
            /\ UNCHANGED << param_file, chain_parameter_config >>
       ELSE \/ /\ ~param_file.exists
               /\ pc' = "exited"
               /\ exit_status' = 1
               /\ UNCHANGED << param_file, chain_parameter_config >>
            \/ LET _chain_parameter_config == LoadChainParameterConfig(param_file)
               IN  /\ param_file' = FileAfterLoad(param_file)
                   /\ IF ConfigAccepted(_chain_parameter_config)
                      THEN /\ chain_parameter_config' = _chain_parameter_config
                           /\ pc' = "top"
                           /\ exit_status' = exit_status
                      ELSE /\ pc' = "exited"
                           /\ exit_status' = 1
                           /\ UNCHANGED chain_parameter_config
    /\ UNCHANGED << helius, get_vars, cache_call, missing_values, ignorable_tokens, file_vars,
                    now, start_time, timestamp, tokens, idx, scan_report,
                    hpc, loc, resp, calls, delivered >>

NextMain ==
    \/ Main
    \/ Next

SpecMain == InitMain /\ [][NextMain]_vars
\* ---------------------------------------------- the cooldown cache methods
\* expiries and query times the two methods are applied to
CacheTimes == { 0, 30, 60, 61, 90, 120, 121 }

cache_frame == << config_vars, main_vars, get_vars, file_vars, now, run_vars,
                  hpc, loc, resp, calls, delivered >>

\* lines 49-50: a call of _add_token_to_ignore(pool, ignore_till_timestamp)
AddTokenToIgnoreCall ==
    /\ \E pool \in Tokens, ignore_till_timestamp \in CacheTimes :
         /\ ignorable_tokens' =
              AddTokenToIgnore(ignorable_tokens, pool, ignore_till_timestamp)
         /\ cache_call' = [ op |-> "add", pool |-> pool,
                            ignore_till_timestamp |-> ignore_till_timestamp ]
    /\ UNCHANGED cache_frame

\* the query dropping the entry it finds expired
TokenIsIgnorableCall_Purging ==
    /\ \E token \in Tokens, ts \in CacheTimes :
         /\ cache_call' = [ op |-> "query", token |-> token, timestamp |-> ts,
                            result |-> TokenIsIgnorable(ignorable_tokens, token, ts) ]
         /\ ignorable_tokens' =
              IF token \in DOMAIN ignorable_tokens /\ ignorable_tokens[token] < ts
              THEN [ t \in DOMAIN ignorable_tokens \ {token} |-> ignorable_tokens[t] ]
              ELSE ignorable_tokens
    /\ UNCHANGED cache_frame

\* lines 52-55: a call of _token_is_ignorable(token, timestamp); it reads the
\* dictionary and assigns nothing
TokenIsIgnorableCall ==
    /\ \E token \in Tokens, ts \in CacheTimes :
         cache_call' = [ op |-> "query", token |-> token, timestamp |-> ts,
                         result |-> TokenIsIgnorable(ignorable_tokens, token, ts) ]
    /\ ignorable_tokens' = ignorable_tokens
    /\ UNCHANGED cache_frame

NextCache ==
    \/ AddTokenToIgnoreCall
    \/ TokenIsIgnorableCall

SpecCache == Init /\ [][NextCache]_vars

\* =================================================================== claims
\* the evaluation of the current candidate has ended with a classification
\* (returned by the handler, or ERROR set by the except clause of run())
Classified == pc = "loop" /\ hpc = "returned"

\* the cooldown cache holds an entry for the candidate that has not expired
\* at the cycle timestamp
Suppressed ==
    /\ token_address \in DOMAIN ignorable_tokens
    /\ ignorable_tokens[token_address] >= timestamp

\* the candidate carries a usable value for the field
Present(v) == v # None /\ v # Garbage

\* stage k of the threshold stages fails on the data the evaluation has seen
StageFails(k) ==
    LET cfg == chain_parameter_config
    IN  CASE k = 1 -> token_data.liquidity < cfg.min_liquidity_in_usd
          [] k = 2 -> \/ token_data.fullyDilutedValuation < cfg.min_mcap_in_usd
                      \/ token_data.fullyDilutedValuation > cfg.max_mcap_in_usd
          [] k = 3 -> Top5AboveThreshold(loc.top_5_holders, cfg)
          [] k = 4 -> loc.totalHolders # None /\ LowHolderCount(loc.totalHolders, cfg)
          [] k = 5 -> /\ loc.buyer_analysis # EmptyDict
                      /\ VolumeBelowFloor(loc.token_analytics,
                                          token_data.fullyDilutedValuation, cfg)
          [] k = 6 -> /\ loc.buyer_analysis # EmptyDict
                      /\ NoBuyOutlier(loc.token_analytics, cfg)

FailingStages == { k \in 1..6 : StageFails(k) }

FirstFailingStage == CHOOSE k \in FailingStages : \A j \in FailingStages : k <= j

\* C1: for a candidate that is not suppressed and has liquidity, valuation and
\* price, the classification is the label of the first failing stage in the
\* order liquidity, valuation range, holder concentration, holder count,
\* 24h volume, buy outlier; a threshold label is returned only by the first
\* failing stage.
C1_FirstFailingStageDecides ==
    ( /\ Classified
      /\ token_address # NoKey
      /\ Present(token_data.liquidity)
      /\ Present(token_data.fullyDilutedValuation)
      /\ Present(token_data.priceUsd)
      /\ (resp = "PASSED" \/ ~Suppressed) )
    => /\ FailingStages # {} => resp = StageLabels[FirstFailingStage]
       /\ resp \in ThresholdLabels => FailingStages # {}

\* a candidate failing both the liquidity floor and the valuation range has
\* been classified MIN_LIQUIDITY
C1_Witness ==
    /\ Classified
    /\ token_address # NoKey
    /\ ~Suppressed
    /\ token_data.priceUsd = 1
    /\ token_data.liquidity = 5000
    /\ token_data.fullyDilutedValuation = 20000000
    /\ resp = "MIN_LIQUIDITY"

\* C2: an exception raised while evaluating one candidate is counted as ERROR
\* for that candidate and never puts run() on the whole-cycle failure path.
C2_CandidateFailureStaysLocal == pc = "except" => hpc # "raised"

\* C3: once the notification channel has been invoked for a candidate, the
\* cooldown entry of its identifier is in place, so the classification of a
\* candidate whose delivery failed part-way leaves it suppressed until
\* timestamp + cooldown.
C3_CooldownBeforeNotification ==
    (Classified /\ delivered # <<>>)
    => /\ token_address \in DOMAIN ignorable_tokens
       /\ ignorable_tokens[token_address]
            = timestamp + SECONDS_TO_IGNORE_TOKEN_OR_POOL_AFTER_SIGNAL

\* C4: an evaluation classified PASSED has delivered exactly one alert.
C4_OneAlertPerPassed ==
    (Classified /\ resp = "PASSED") => delivered = AlertMessages

\* C5: after an evaluation classified PASSED at cycle timestamp t, the cooldown
\* cache maps the identifier to t + SECONDS_TO_IGNORE_TOKEN_OR_POOL_AFTER_SIGNAL.
C5_PassedSetsExpiry ==
    (Classified /\ resp = "PASSED")
    => /\ token_address \in DOMAIN ignorable_tokens
       /\ ignorable_tokens[token_address]
            = timestamp + SECONDS_TO_IGNORE_TOKEN_OR_POOL_AFTER_SIGNAL

\* an identifier alerted at second 0 passes again at second 61 and is
\* suppressed until second 121
C5_Witness ==
    /\ Classified
    /\ resp = "PASSED"
    /\ timestamp = 61
    /\ ignorable_tokens[token_address] = 121

\* the suppression check of the current candidate has run and no provider has
\* been called yet (the cache is as the check saw it)
AfterSuppressionCheck ==
    /\ pc = "loop"
    /\ idx <= Len(tokens)
    /\ token_address # NoKey
    /\ hpc # "idle"
    /\ calls = <<>>

\* C6: the suppression check answers true iff the cache has an entry for the
\* identifier whose expiry is >= the timestamp: no entry is never suppressed,
\* timestamp = expiry is suppressed, timestamp = expiry + 1 is not.
C6_SuppressedIffUnexpiredEntry ==
    AfterSuppressionCheck
    => ( (hpc = "returned" /\ resp = "IGNORABLE")
         <=> \E t \in DOMAIN ignorable_tokens :
               t = token_address /\ timestamp <= ignorable_tokens[t] )

\* a candidate evaluated exactly at its expiry has been found suppressed
C6_Witness ==
    /\ AfterSuppressionCheck
    /\ resp = "IGNORABLE"
    /\ ignorable_tokens[token_address] = timestamp

\* C7: a candidate whose identifier is suppressed at the cycle timestamp is
\* classified IGNORABLE, whatever its fields and whatever the parameter set.
C7_SuppressedIsIgnorable ==
    (AfterSuppressionCheck /\ Suppressed) => (Classified /\ resp = "IGNORABLE")

\* a suppressed candidate without liquidity, valuation and price, under the
\* tuned parameter set, has been classified IGNORABLE
C7_Witness ==
    /\ Classified
    /\ token_address # NoKey
    /\ Suppressed
    /\ token_data.liquidity = None
    /\ token_data.fullyDilutedValuation = None
    /\ token_data.priceUsd = None
    /\ chain_parameter_config = TunedConfig
    /\ resp = "IGNORABLE"

\* C8: a candidate that is not suppressed and lacks liquidity, valuation or
\* price is classified ERROR, never with a threshold label.
C8_MissingFieldIsError ==
    ( /\ Classified
      /\ token_address # NoKey
      /\ ~Suppressed
      /\ \/ token_data.liquidity = None
         \/ token_data.fullyDilutedValuation = None
         \/ token_data.priceUsd = None )
    => resp = "ERROR"

\* C9 as claimed: a candidate whose liquidity is below min_liquidity_in_usd is
\* classified MIN_LIQUIDITY whatever the cooldown cache holds.
C9_LowLiquidityAlways ==
    ( /\ Classified
      /\ token_address # NoKey
      /\ Present(token_data.liquidity)
      /\ token_data.liquidity < chain_parameter_config.min_liquidity_in_usd )
    => resp = "MIN_LIQUIDITY"

\* C9: a candidate that is not suppressed and whose liquidity is below
\* min_liquidity_in_usd is classified MIN_LIQUIDITY, whatever its other fields.
C9_LowLiquidityUnlessSuppressed ==
    ( /\ Classified
      /\ token_address # NoKey
      /\ ~Suppressed
      /\ Present(token_data.liquidity)
      /\ token_data.liquidity < chain_parameter_config.min_liquidity_in_usd )
    => resp = "MIN_LIQUIDITY"

\* a candidate below the liquidity floor, without valuation and price, has
\* been classified MIN_LIQUIDITY
C9_Witness ==
    /\ Classified
    /\ token_address # NoKey
    /\ ~Suppressed
    /\ token_data.liquidity = 5000
    /\ token_data.fullyDilutedValuation = None
    /\ token_data.priceUsd = None
    /\ resp = "MIN_LIQUIDITY"

\* the provider calls of one evaluation, in the order the stages need them
CallOrder ==
    << "get_top_token_holders", "get_token_holder_stats", "get_token_analytics",
       "get_first_time_vs_repeat_buyers", "get_token_metadata", "get_token_pairs",
       "get_24h_candlestick_data", "get_links" >>
    \o (IF helius THEN << "get_enhanced_token_details", "get_token_transfers" >>
        ELSE <<>>)

\* C10: no provider call is issued for a candidate whose evaluation ends at the
\* suppression check, a missing liquidity or valuation, the liquidity floor or
\* the valuation range; the calls are issued in stage order, each only after
\* every earlier stage has passed.
C10_LazyLookups ==
    (pc = "loop" /\ idx <= Len(tokens))
    => /\ Len(calls) <= Len(CallOrder)
       /\ calls = SubSeq(CallOrder, 1, Len(calls))
       /\ (Classified /\ resp \in {"IGNORABLE", "MIN_LIQUIDITY", "MCAP_RANGE"})
            => calls = <<>>
       /\ calls # <<>>
            => /\ token_address # NoKey
               /\ hpc \notin {"returned", "raised"} => ~Suppressed
               /\ Present(token_data.liquidity) /\ ~StageFails(1)
               /\ Present(token_data.fullyDilutedValuation) /\ ~StageFails(2)
       /\ Len(calls) >= 2 => ~StageFails(3)
       /\ Len(calls) >= 3 => ~StageFails(4)
       /\ Len(calls) >= 5 => ~StageFails(5) /\ ~StageFails(6)

\* an evaluation that ended at the valuation range has called no provider
C10_Witness ==
    /\ Classified
    /\ resp = "MCAP_RANGE"
    /\ token_data.priceUsd = 1
    /\ calls = <<>>

\* C11: a whole-cycle failure (the fetch raised, an exception escaped the
\* candidate loop, or the report write raised) is not propagated: run() sleeps
\* SECONDS_TO_SLEEP_ON_ERROR, not the inter-scan sleep, and is back at the top
\* of the loop, where the only thing it does is reload the parameter set; the
\* cycle that follows runs with the set loaded from the file as found then.
C11_BackoffThenReload ==
    [][ /\ pc = "except"
             => /\ pc' = "top"
                /\ now' = now + SECONDS_TO_SLEEP_ON_ERROR
        /\ pc = "top" => pc' \in {"fetch", "exited"}
        /\ (pc = "top" /\ pc' = "fetch")
             => chain_parameter_config' = LoadChainParameterConfig(param_file') ]_vars

\* a cycle started after the backoff of a cycle that failed at second 0 (no
\* report has been written), with the tuned parameter set reloaded
C11_Witness ==
    /\ pc = "fetch"
    /\ start_time = SECONDS_TO_SLEEP_ON_ERROR
    /\ scan_reports = {}
    /\ param_file = JsonFile(TunedConfig)
    /\ chain_parameter_config = TunedConfig

\* C12: once run() has started, no failure of the parameter store, the
\* candidate source, a provider, the notification channel or the report sink
\* ends the scheduler loop: run() is never left.
C12_SchedulerNeverTerminates == pc # "exited"

\* C13: when the reload at the start of a cycle finds a parameter file it
\* cannot read, the cycle is started all the same and runs with the parameter
\* set that was in memory during the previous cycle.
C13_ReadFailureKeepsPreviousSet ==
    [][ (pc = "top" /\ param_file'.exists /\ ~param_file'.readable)
          => /\ pc' = "fetch"
             /\ chain_parameter_config' = chain_parameter_config ]_vars

\* the cycle of the running iteration has completed: its report is written
CycleCompleted == pc = "sleep"

\* seconds since the iteration began (start_time is taken first, before the
\* parameter reload)
Elapsed == now - start_time

\* C14: after a completed cycle run() sleeps exactly
\* max(0, SECONDS_BETWEEN_SCANS - elapsed), elapsed counted from the start of
\* the iteration to after the report write: never a negative amount, and
\* nothing when the cycle took the interval or longer.
C14_SleepsRestOfInterval ==
    [][ CycleCompleted
          => /\ pc' = "top"
             /\ now' >= now
             /\ Elapsed < SECONDS_BETWEEN_SCANS
                  => now' - now = SECONDS_BETWEEN_SCANS - Elapsed
             /\ Elapsed >= SECONDS_BETWEEN_SCANS => now' = now ]_vars

\* an iteration that took 61 seconds has completed and the next one begins at
\* once
C14_Witness ==
    /\ pc = "fetch"
    /\ start_time = 61
    /\ scan_reports = {61}

\* the scheduler state run() is in
SchedulerState ==
    CASE pc = "top" -> "IDLE"
      [] pc \in {"fetch", "loop"} -> "RUNNING_CYCLE"
      [] pc = "sleep" -> "SLEEPING"
      [] pc = "except" -> "ERROR_BACKOFF"
      [] OTHER -> "TERMINATED"

SchedulerTransitions ==
    { << "IDLE", "RUNNING_CYCLE" >>, << "RUNNING_CYCLE", "SLEEPING" >>,
      << "SLEEPING", "IDLE" >>, << "RUNNING_CYCLE", "ERROR_BACKOFF" >>,
      << "ERROR_BACKOFF", "IDLE" >> }

\* C15: the scheduler only moves IDLE -> RUNNING_CYCLE -> SLEEPING -> IDLE and
\* RUNNING_CYCLE -> ERROR_BACKOFF -> IDLE; the parameter reload and the fetch
\* of a cycle begin only once the cycle before it has ended, its candidates
\* evaluated one after the other.
C15_SchedulerTransitions ==
    [][ /\ SchedulerState' # SchedulerState
          => << SchedulerState, SchedulerState' >> \in SchedulerTransitions
        /\ SchedulerState' = "RUNNING_CYCLE" /\ SchedulerState # "RUNNING_CYCLE"
          => /\ SchedulerState = "IDLE"
             /\ tokens = <<>> /\ hpc = "idle" /\ report_writes = 0 ]_vars

\* the count a report holds under a label
CountOf(report, label) == IF label \in DOMAIN report THEN report[label] ELSE 0

RECURSIVE SumOver(_, _)
SumOver(report, labels) ==
    IF labels = {} THEN 0
    ELSE LET l == CHOOSE x \in labels : TRUE
         IN  report[l] + SumOver(report, labels \ {l})

\* the number of classifications a report counts
ReportTotal(report) == SumOver(report, DOMAIN report)

\* while the candidates are evaluated, those before idx have been counted; the
\* report of a completed cycle counts every candidate, and is empty for the
\* empty list
ReportCountsCandidates ==
    /\ pc = "loop"
         => /\ idx \in 1..(Len(tokens) + 1)
            /\ ReportTotal(scan_report) = idx - 1
    /\ CycleCompleted
         => /\ idx = Len(tokens) + 1
            /\ ReportTotal(scan_report) = Len(tokens)
            /\ \A l \in DOMAIN scan_report : scan_report[l] >= 1
            /\ tokens = <<>> => scan_report = EmptyDict

\* the candidates are taken one at a time in list order, each counted once
\* under its classification and under no other label; the list does not change
\* while it is evaluated, and the report written is the tally of all of it
OneTallyPerCandidate ==
    /\ (pc = "loop" /\ idx' # idx /\ pc' = "loop")
         => /\ idx' = idx + 1
            /\ hpc = "returned"
            /\ DOMAIN scan_report' = DOMAIN scan_report \cup {resp}
            /\ \A l \in DOMAIN scan_report' :
                 CountOf(scan_report', l)
                   = CountOf(scan_report, l) + (IF l = resp THEN 1 ELSE 0)
    /\ (pc = "loop" /\ idx' = idx /\ pc' = "loop") => scan_report' = scan_report
    /\ (pc = "loop" /\ pc' \in {"loop", "sleep"}) => tokens' = tokens
    /\ (pc = "loop" /\ pc' = "sleep")
         => scan_report' = scan_report /\ idx' = idx
    /\ (pc = "loop" /\ tokens = <<>>)
         => /\ pc' \in {"sleep", "except"}
            /\ hpc' = "idle" /\ resp' = "unset" /\ calls' = <<>>

\* C16: for every candidate list, the empty one included, a completed cycle
\* has evaluated each candidate once, in the order supplied, and its report
\* holds under each label the number of candidates classified so, the counts
\* summing to the number of candidates; the empty list raises nothing and
\* gives a report with no entry, followed by the inter-scan sleep.
C16_ReportTalliesEveryCandidate ==
    []ReportCountsCandidates /\ [][OneTallyPerCandidate]_vars

\* a cycle over a list naming the same identifier twice has completed with
\* one PASSED and one IGNORABLE
C16_Witness ==
    /\ CycleCompleted
    /\ Len(tokens) = 2
    /\ DOMAIN scan_report = {"PASSED", "IGNORABLE"}
    /\ ReportTotal(scan_report) = 2

\* the report writes of the running iteration: one, made after the last
\* candidate has been classified, once the cycle has completed, and none
\* before that or on the whole-cycle failure path
OneReportPerCompletedCycle ==
    /\ CycleCompleted
         => /\ report_writes = 1
            /\ now \in scan_reports
            /\ idx = Len(tokens) + 1
            /\ hpc = "idle"
    /\ ~CycleCompleted => report_writes = 0

\* C17 as claimed: every iteration that finishes evaluating its candidates
\* persists exactly one scan report, written after the last candidate has been
\* classified; an iteration on the whole-cycle failure path persists none.
C17_FinishedIterationPersistsOne ==
    /\ []OneReportPerCompletedCycle
    /\ [][ (pc = "loop" /\ idx > Len(tokens)) => report_writes' = 1 ]_vars

\* C17: an iteration that finishes evaluating its candidates makes one report
\* write, after the last candidate has been classified, and has persisted
\* exactly one report when that write succeeds; an iteration on the
\* whole-cycle failure path, the report write that raises included, has
\* completed no report write.
C17_OneReportUnlessWriteFails ==
    /\ OneReportPerCompletedCycle
    /\ report_writes \in {0, 1}

\* a cycle over two candidates has completed and its one report is written
C17_Witness ==
    /\ CycleCompleted
    /\ Len(tokens) = 2
    /\ report_writes = 1
    /\ scan_reports = {now}

\* the evaluation of the current candidate has reached the volume floor stage
\* (the analytics are fetched and the buyer lookup has returned)
ReachedVolumeFloor ==
    /\ pc = "loop"
    /\ idx <= Len(tokens)
    /\ loc.buyer_analysis # EmptyDict

\* C18: a candidate reaching the volume floor stage is classified
\* MIN_24H_VOLUME iff its 24h buy volume plus its 24h sell volume is strictly
\* below valuation * min_24h_usd_volume_as_percentage_of_mcap / 100.
C18_VolumeFloorOnBuyPlusSell ==
    ReachedVolumeFloor
    => ( (hpc = "returned" /\ resp = "MIN_24H_VOLUME")
         <=> (loc.token_analytics.totalBuyVolume.h24
                + loc.token_analytics.totalSellVolume.h24) * 100
               < token_data.fullyDilutedValuation
                   * chain_parameter_config.min_24h_usd_volume_as_percentage_of_mcap )

\* the holders of a list that are not flagged as contracts, in list order
NonContractHolders(holders) == SelectSeq(holders, LAMBDA h : ~h.isContract)

\* the first n elements of a sequence, all of it when it is shorter
FirstN(s, n) == SubSeq(s, 1, IF Len(s) < n THEN Len(s) ELSE n)

\* the supply percentage held by the first n holders of a list
RECURSIVE SupplyShare(_, _)
SupplyShare(holders, n) ==
    IF n = 0 THEN 0
    ELSE holders[n].percentageRelativeToTotalSupply + SupplyShare(holders, n - 1)

\* the holder concentration stage of the current candidate has just run on
\* the holder list the provider returned
HolderStageRan ==
    /\ pc = "loop"
    /\ idx <= Len(tokens)
    /\ loc.top_token_holders # <<>>

\* C19: the holder concentration stage sums the supply percentage of the
\* first five holders not flagged as contracts, in list order, a contract
\* taking none of the five places, and fails with TOP_5_HOLDERS_ABOVE_TH iff
\* the sum is strictly greater than max_holding_percentage_top_5_holders.
C19_TopFiveNonContractHolders ==
    HolderStageRan
    => LET five == FirstN(NonContractHolders(loc.top_token_holders), 5)
       IN  /\ loc.top_5_holders = five
           /\ (hpc = "returned" /\ resp = "TOP_5_HOLDERS_ABOVE_TH")
                <=> SupplyShare(five, Len(five))
                      > chain_parameter_config.max_holding_percentage_top_5_holders
           /\ hpc \in {"returned", "holder_stats"}

\* a list led by a contract holding 60 percent, whose first five wallets hold
\* exactly the threshold, has passed the stage
C19_Witness ==
    /\ HolderStageRan
    /\ hpc = "holder_stats"
    /\ Head(loc.top_token_holders) = Holder(TRUE, 60)
    /\ SupplyShare(loc.top_5_holders, 5)
         = chain_parameter_config.max_holding_percentage_top_5_holders

\* the evaluation of the current candidate has reached the outlier stage: it
\* reached the volume floor and did not end there
ReachedOutlierStage ==
    /\ ReachedVolumeFloor
    /\ ~(hpc = "returned" /\ resp = "MIN_24H_VOLUME")

\* threshold = 24h buy volume * std_multiple_for_outlier / 24, rounded down,
\* and what the division leaves
OutlierThreshold ==
    (loc.token_analytics.totalBuyVolume.h24
       * chain_parameter_config.std_multiple_for_outlier) \div 24

OutlierThresholdIsWhole ==
    (loc.token_analytics.totalBuyVolume.h24
       * chain_parameter_config.std_multiple_for_outlier) % 24 = 0

\* C20: a candidate reaching the outlier stage is classified NO_BUY_OUTLIER
\* iff its 1h buy volume is <= 24h buy volume * std_multiple_for_outlier / 24;
\* a 1h buy volume equal to the threshold is NO_BUY_OUTLIER, and only a
\* strictly greater one goes on to the later steps.
C20_OutlierAtOrBelowThreshold ==
    ReachedOutlierStage
    => LET h1 == loc.token_analytics.totalBuyVolume.h1
       IN  /\ (hpc = "returned" /\ resp = "NO_BUY_OUTLIER")
                <=> h1 <= OutlierThreshold
           /\ (hpc = "returned" /\ resp \in ThresholdLabels)
                => resp = "NO_BUY_OUTLIER"

\* a candidate whose 1h buy volume of 20000 equals the threshold
\* (240000 * 2 / 24) has been classified NO_BUY_OUTLIER
C20_Witness ==
    /\ ReachedOutlierStage
    /\ OutlierThresholdIsWhole
    /\ loc.token_analytics.totalBuyVolume.h1 = OutlierThreshold
    /\ hpc = "returned"
    /\ resp = "NO_BUY_OUTLIER"

\* ------------------------------------------------------------------ C21
\* C21: a candidate that passes stages 1 to 8 but for which the pair resolver
\* returns no venue with the preferred venue name (its pool address stays
\* empty) is classified ERROR, never PASSED.
C21_UnresolvedPoolIsError ==
    (Classified /\ loc.pool_address = "") => resp = "ERROR"

\* ------------------------------------------------------------------ C22
\* every provider lookup of the evaluation has answered, the pool is resolved
\* and the whole notification has been delivered
LookupsAndNotificationSucceeded ==
    /\ loc.pool_address \notin {"unset", ""}
    /\ loc.candlestick_data # None
    /\ delivered = AlertMessages

\* C22: a candidate that is not suppressed, has liquidity, valuation and
\* price, fails no threshold stage, whose pool resolves and for which every
\* provider call and the notification succeed, is classified PASSED.
C22_AllSucceedIsPassed ==
    ( /\ Classified
      /\ Present(token_data.liquidity)
      /\ Present(token_data.fullyDilutedValuation)
      /\ Present(token_data.priceUsd)
      /\ FailingStages = {}
      /\ LookupsAndNotificationSucceeded )
    => resp = "PASSED"

\* ------------------------------------------------------------------ C23
\* every delay of the call so far is twice the one before it, the first is 2
DelaysDouble ==
    \A i \in 1..Len(sleeps) :
        sleeps[i] = IF i = 1 THEN 2 ELSE 2 * sleeps[i - 1]

\* C23 as stated: _get returns the first successful response; when every
\* attempt fails it waits between attempts with a doubling delay and surfaces
\* the failure after a fixed ceiling of 5 attempts.
C23_CeilingOfFiveAttempts ==
    /\ DelaysDouble
    /\ gpc = "returned" => json \in JsonBodies /\ attempts = Len(sleeps) + 1
    /\ attempts <= 5
    /\ gpc = "raised" => attempts = 5

\* C23, amended: _get returns the first successful response (every attempt
\* before it failed and was followed by one sleep); when every attempt fails
\* the delays are 2, 4, 8, 16, 32 and the failure is surfaced by attempt
\* MAX_RETRIES + 1 = 6, so a call never makes more than 6 requests.
C23_CeilingOfSixAttempts ==
    /\ DelaysDouble
    /\ gpc = "returned" => json \in JsonBodies /\ attempts = Len(sleeps) + 1
    /\ attempts <= MAX_RETRIES + 1
    /\ Len(sleeps) <= MAX_RETRIES
    /\ gpc = "raised" => /\ attempts = MAX_RETRIES + 1
                         /\ Len(sleeps) = MAX_RETRIES
                         /\ json = "unset"

\* a call whose every attempt failed has given up
C23_Witness ==
    /\ gpc = "raised"
    /\ attempts = 6
    /\ sleeps = << 2, 4, 8, 16, 32 >>

\* ------------------------------------------------------------------ C24
\* the buyer lookup has returned in the evaluation of the current candidate
BuyerLookupReturned == pc = "loop" /\ idx <= Len(tokens) /\ loc.buyer_analysis # EmptyDict

\* the record has every window and nothing but zeros
AllZeroRecord(r) ==
    /\ DOMAIN r = Windows
    /\ \A w \in Windows : \A f \in DOMAIN ZeroWindow : r[w][f] = 0

\* C24: a failure or missing data in the buyer-recency lookup never fails the
\* evaluation: no evaluation ends with an exception of
\* get_first_time_vs_repeat_buyers, the lookup then returns the all-zero
\* record for each window, and the classification made once it has returned
\* is the same threshold decision whichever record came back.
C24_BuyerLookupNeverFailsEvaluation ==
    /\ (hpc = "raised" /\ calls # <<>>)
         => calls[Len(calls)] # "get_first_time_vs_repeat_buyers"
    /\ \A a \in { AnalyticsRaised, AnalyticsWithoutBuyers } :
         AllZeroRecord(FirstTimeVsRepeatBuyers(a))
    /\ BuyerLookupReturned
         => /\ DOMAIN loc.buyer_analysis = Windows
            /\ (hpc = "returned" /\ resp \in {"MIN_24H_VOLUME", "NO_BUY_OUTLIER"})
                 <=> (StageFails(5) \/ StageFails(6))

\* a candidate whose buyer lookup gave the default record has been classified
\* PASSED
C24_Witness ==
    /\ Classified
    /\ loc.buyer_analysis = DefaultBuyerAnalysis
    /\ resp = "PASSED"

\* ------------------------------------------------------------------ C25
\* which of the three cases the evaluation of the current candidate is in
HeliusCase ==
    IF ~helius THEN "absent"
    ELSE IF loc.helius_data = "data" THEN "succeeding" ELSE "failing"

\* the steps around the Helius lookup neither classify the candidate nor
\* touch the cooldown cache or the channel; the alert and what follows it are
\* decided by the candles, the delivery and the store alone
HeliusStepIsNeutral ==
    /\ hpc \in {"links", "helius"}
         => /\ hpc' \in {"helius", "send"}
            /\ resp' = resp
            /\ ignorable_tokens' = ignorable_tokens
            /\ delivered' = delivered
    /\ hpc = "send"
         => /\ hpc' \in {"mark", "raised"}
            /\ hpc' = "mark"
                 <=> delivered' = (IF loc.candlestick_data = 0 THEN <<>> ELSE AlertMessages)
            /\ ignorable_tokens' = ignorable_tokens
    /\ hpc = "mark"
         => /\ ignorable_tokens' =
                 AddTokenToIgnore(ignorable_tokens, token_address, IgnoreTill(timestamp))
            /\ \/ hpc' = "returned" /\ resp' = "PASSED"
               \/ hpc' = "raised"

\* after the Helius lookup every continuation is open in each of the cases:
\* each number of delivered messages, the store succeeding or failing
SameContinuations ==
    /\ (InHandler("send") /\ loc.candlestick_data # 0)
         => \A k \in 0..Len(AlertMessages) : ENABLED (SendAlert /\ Len(delivered') = k)
    /\ InHandler("mark")
         => /\ ENABLED (MarkAndStore /\ hpc' = "returned")
            /\ ENABLED (MarkAndStore /\ hpc' = "raised")

C26_OnlyMissingConfigIsFatal ==
    /\ (missing_values # {} /\ pc # "main")
         => /\ pc = "exited"
            /\ exit_status \notin {None, 0}
            /\ chain_parameter_config = NoContent
            /\ scan_reports = {}
    /\ exit_status # None => missing_values # {}

\* ------------------------------------------------------------------ C27
\* one step of the process, as far as the parameter set goes: a cycle is
\* entered only from the loop top, with the set just loaded from the store as
\* the load found it, and no other step changes the set
ParameterSetReadAtCycleStart ==
    /\ pc' = "fetch"
         => /\ pc = "top"
            /\ chain_parameter_config' = LoadChainParameterConfig(param_file')
    /\ pc # "top"
         => /\ chain_parameter_config' = chain_parameter_config
            /\ param_file' = param_file
    /\ pc \in {"sleep", "except"} => pc' = "top"

\* C27: the parameter set is re-read at the start of every loop iteration,
\* including the one after an error backoff; the candidates of a cycle are all
\* classified against the set read at the cycle's start, and a change of the
\* store takes effect at the next cycle start, never in the middle of a cycle.
C27_ParameterSetPerCycle == [][ParameterSetReadAtCycleStart]_vars

\* the first cycle failed before any report; the cycle after the backoff
\* classified a candidate with liquidity 50000 against the tuned set
\* (min_liquidity_in_usd 60000)
C27_Witness ==
    /\ Classified
    /\ timestamp = SECONDS_TO_SLEEP_ON_ERROR
    /\ scan_reports = {}
    /\ chain_parameter_config = TunedConfig
    /\ token_data.liquidity = 50000
    /\ resp = "MIN_LIQUIDITY"

\* ------------------------------------------------------------------ C28
\* the step is a call of _add_token_to_ignore
IsAddCall ==
    /\ cache_call'.op = "add"
    /\ << cache_call, ignorable_tokens >>' # << cache_call, ignorable_tokens >>

\* C28: _add_token_to_ignore(a, ts) sets the entry of a to ts whatever entry a
\* had (later or earlier than ts), adds a when it had none, and leaves every
\* other identifier's entry as it was.
C28_LastWriteWins ==
    [][ IsAddCall
        => LET a == cache_call'.pool
               ts == cache_call'.ignore_till_timestamp
           IN  /\ DOMAIN ignorable_tokens' = DOMAIN ignorable_tokens \cup {a}
               /\ ignorable_tokens'[a] = ts
               /\ \A t \in DOMAIN ignorable_tokens \ {a} :
                    ignorable_tokens'[t] = ignorable_tokens[t] ]_vars

\* "a" has been given the expiry 60, earlier than the entry the other
\* identifier keeps
C28_Witness ==
    /\ cache_call = [ op |-> "add", pool |-> "a", ignore_till_timestamp |-> 60 ]
    /\ ignorable_tokens = [ t \in {"a", "b"} |-> IF t = "a" THEN 60 ELSE 120 ]

\* ------------------------------------------------------------------ C29
\* C29: _token_is_ignorable is a pure query: a call leaves the cooldown cache
\* as it was, and a call that follows another one with the same identifier
\* and the same timestamp gives the same result.
C29_QueryIsPure ==
    [][ cache_call'.op = "query"
        => /\ ignorable_tokens' = ignorable_tokens
           /\ ( /\ cache_call.op = "query"
                /\ cache_call.token = cache_call'.token
                /\ cache_call.timestamp = cache_call'.timestamp )
                => cache_call'.result = cache_call.result ]_vars

\* the query has found the entry of "a" expired, and the entry is still
\* there
C29_Witness ==
    /\ cache_call = [ op |-> "query", token |-> "a", timestamp |-> 61,
                      result |-> FALSE ]
    /\ "a" \in DOMAIN ignorable_tokens
    /\ ignorable_tokens["a"] = 60

\* ------------------------------------------------------------------ C30
\* C30: the cooldown cache is modified only by an evaluation that returns
\* PASSED, which sets exactly that candidate's entry; every evaluation with
\* another outcome leaves the cache unchanged, and no entry is ever removed.
C30_OnlyPassedWritesCache ==
    [][ /\ DOMAIN ignorable_tokens \subseteq DOMAIN ignorable_tokens'
        /\ ignorable_tokens' # ignorable_tokens
             => /\ hpc' = "returned"
                /\ resp' = "PASSED"
                /\ ignorable_tokens' =
                     AddTokenToIgnore(ignorable_tokens, token_address,
                                      IgnoreTill(timestamp)) ]_vars

\* ------------------------------------------------------------------ C31
\* the identifiers of the candidates the running cycle has classified
IdentifiersSeen == { tokens[j].tokenAddress : j \in 1..(idx - 1) }

\* within a cycle no identifier is counted PASSED twice, and a candidate
\* whose identifier is that of every candidate before it, one of which
\* passed, is IGNORABLE
OnePassPerIdentifierAndCycle ==
    pc = "loop"
    => /\ CountOf(scan_report, "PASSED") <= Cardinality(IdentifiersSeen)
       /\ ( /\ Classified
            /\ CountOf(scan_report, "PASSED") >= 1
            /\ \A j \in 1..(idx - 1) : tokens[j].tokenAddress = token_address )
            => resp = "IGNORABLE"

\* a pass finds no entry of the identifier, or one that expired before the
\* cycle timestamp; no step lowers or removes an entry
PassOnlyAfterExpiry ==
    /\ (hpc = "mark" /\ hpc' = "returned" /\ resp' = "PASSED")
         => (token_address \in DOMAIN ignorable_tokens
               => timestamp > ignorable_tokens[token_address])
    /\ \A t \in DOMAIN ignorable_tokens :
         /\ t \in DOMAIN ignorable_tokens'
         /\ ignorable_tokens'[t] >= ignorable_tokens[t]

\* C31: two PASSED classifications of the same identifier at cycle timestamps
\* t1 before t2 satisfy t2 > t1 + cooldown window (the entry written at t1 is
\* t1 + window, is never lowered, and a pass at t2 requires t2 beyond it); an
\* identifier listed more than once in a cycle passes at most once in that
\* cycle and is IGNORABLE on its later occurrences.
C31_PassesAreACooldownApart ==
    []OnePassPerIdentifierAndCycle /\ [][PassOnlyAfterExpiry]_vars

\* the second occurrence of an identifier in the first cycle has been
\* classified IGNORABLE, the first one having passed
C31_Witness ==
    /\ Classified
    /\ timestamp = 0
    /\ idx = 2
    /\ tokens[1].tokenAddress = tokens[2].tokenAddress
    /\ CountOf(scan_report, "PASSED") = 1
    /\ resp = "IGNORABLE"

\* ------------------------------------------------------------------ C32
\* the classification of the current candidate agrees with the cycle
\* timestamp: a pass wrote timestamp + window, a suppressed candidate has an
\* entry not before the timestamp, and any other candidate has no entry, an
\* entry before the timestamp, or the one its own evaluation wrote
UsesCycleTimestamp ==
    (Classified /\ token_address # NoKey)
    => LET known == token_address \in DOMAIN ignorable_tokens
       IN  /\ resp = "PASSED"
                => known /\ ignorable_tokens[token_address] = IgnoreTill(timestamp)
           /\ resp = "IGNORABLE"
                => known /\ ignorable_tokens[token_address] >= timestamp
           /\ (resp \notin {"PASSED", "IGNORABLE"} /\ known)
                => \/ ignorable_tokens[token_address] < timestamp
                   \/ ignorable_tokens[token_address] = IgnoreTill(timestamp)

\* the timestamp is the clock at the loop top, before the fetch, and stays
\* through the fetch and the candidates
TimestampTakenOnce ==
    /\ (pc = "top" /\ pc' = "fetch") => timestamp' = now
    /\ pc \in {"fetch", "loop"} => timestamp' = timestamp

\* C32: all candidates of a cycle are evaluated against one timestamp taken
\* before the candidate list is fetched; the suppression check and the expiry
\* written on PASSED use it, however long the fetch or the earlier candidates
\* took.
C32_OneTimestampPerCycle ==
    []UsesCycleTimestamp /\ [][TimestampTakenOnce]_vars

\* after a fetch of 61 seconds a candidate has passed: its entry is the cycle
\* timestamp plus the window, already behind the clock
C32_Witness ==
    /\ Classified
    /\ resp = "PASSED"
    /\ now > timestamp
    /\ ignorable_tokens[token_address] = IgnoreTill(timestamp)
    /\ ignorable_tokens[token_address] < now

\* ------------------------------------------------------------------ C33
\* C33: no alert message is delivered for a candidate whose classification
\* is not PASSED: a candidate that received any message of an alert is
\* classified, and counted, PASSED.
C33_AlertOnlyForPassed ==
    (Classified /\ delivered # <<>>) => resp = "PASSED"

\* ------------------------------------------------------------------ C34
\* the steps of an iteration whose fetch fails (loop top, failed fetch,
\* backoff) leave the cooldown cache, the report files and the channel alone,
\* and no evaluation is started
QuietStep ==
    /\ ignorable_tokens' = ignorable_tokens
    /\ scan_reports' = scan_reports
    /\ report_writes' = report_writes
    /\ delivered' = delivered
    /\ calls' = calls

FetchFailureFrame ==
    /\ pc = "top" => QuietStep
    /\ pc = "fetch"
         => /\ QuietStep
            /\ delivered = <<>> /\ calls = <<>> /\ report_writes = 0
            /\ pc' = "except" => (tokens' = <<>> /\ hpc' = "idle" /\ resp' = "unset")
    /\ (pc = "except" /\ tokens = <<>>)
         => /\ pc' = "top"
            /\ ignorable_tokens' = ignorable_tokens
            /\ scan_reports' = scan_reports

\* C34: when the candidate-list fetch fails, the iteration evaluates no
\* candidate, sends no notification, persists no report and leaves the
\* cooldown cache as it was before the iteration.
C34_FailedFetchChangesNothing == [][FetchFailureFrame]_vars

\* an iteration is in the error backoff without a candidate list; the cache
\* and the report files hold what earlier cycles left
C34_Witness ==
    /\ pc = "except"
    /\ tokens = <<>>
    /\ report_writes = 0
    /\ ignorable_tokens # EmptyDict
    /\ scan_reports # {}

\* ------------------------------------------------------------------ C35
\* C35: every loop iteration of run() ends in the inter-scan sleep or in the
\* error backoff: an iteration under way (reload, fetch, candidates, report)
\* goes on or reaches one of the two, and never ends anywhere else.
C35_IterationReachesSleepOrBackoff ==
    [][ (pc \in {"top", "fetch", "loop"})
          => (pc' \in {"top", "fetch", "loop", "sleep", "except"}) ]_vars


\* ------------------------------------------------------------------ C36
\* the pairs get_token_pairs returned have been searched for the pool
PoolSelected == loc.pool_address # "unset"

\* the positions of the pairs whose exchange name is exactly the preferred one
PreferredPositions ==
    { i \in DOMAIN loc.token_pairs : loc.token_pairs[i].exchangeName = "PumpSwap" }

\* C36: once the pairs are searched, the pool is the pair address of the first
\* pair, in the order returned, whose exchange name is exactly "PumpSwap" (the
\* empty address when there is none): a pair with another name, or a later
\* pair with that name, is never the pool.
C36_PoolIsFirstPreferredVenue ==
    PoolSelected =>
        IF PreferredPositions = {}
        THEN loc.pool_address = ""
        ELSE \E i \in PreferredPositions :
                /\ \A j \in PreferredPositions : i <= j
                /\ loc.pool_address = loc.token_pairs[i].pairAddress

\* the pool was taken from a list with a differently named pair before the
\* first preferred one, a name differing in case only, and a later preferred one
C36_Witness ==
    /\ PoolSelected
    /\ \E i, j, k, l \in DOMAIN loc.token_pairs :
          /\ i < k /\ j < k /\ k < l
          /\ loc.token_pairs[i].exchangeName = "Raydium"
          /\ loc.token_pairs[j].exchangeName = "pumpswap"
          /\ loc.token_pairs[k].exchangeName = "PumpSwap"
          /\ loc.token_pairs[l].exchangeName = "PumpSwap"
          /\ loc.pool_address = loc.token_pairs[k].pairAddress
          /\ loc.pool_address # loc.token_pairs[l].pairAddress


\* ------------------------------------------------------------------ C37
\* a step of run() that writes a scan report file
ReportWritten == report_writes' = report_writes + 1

\* C37: scan reports are write-once: no cycle writes its report under a file
\* name an earlier cycle of the run has written, so no report is overwritten.
C37_ReportsAreWriteOnce ==
    [][ ReportWritten => (now \notin scan_reports) ]_vars

====
